---- MODULE Spec2Model ----
(***************************************************************************)
(* A model of the home-automation central unit: the serial request/reply   *)
(* exchange of ArduinoSerial (read_line, ask) and the shutter control of   *)
(* CentralUnit (_update_shutters, _automatic_shutters, _get_day_time,      *)
(* _close_shutters_if_opened, _open_shutters_if_closed, _run_commands),    *)
(* with the handshake of ArduinoSerial.__init__ and the operator commands  *)
(* of CentralUnit.parse_command.                                           *)
(*                                                                         *)
(* Conventions.                                                            *)
(*  - A line on the wire is a sequence of tokens: a word (a maximal run of *)
(*    characters holding no ';'), the separator SEP, and the terminator    *)
(*    CRLF. No two words are adjacent, so str.split(";") is modelled by    *)
(*    what it does: n separators yield n+1 fields, some possibly empty.    *)
(*  - Python's None is NONE (0) for the integer-valued results and a       *)
(*    boolean flag in the records.                                         *)
(*  - An attribute that was never assigned is NoAttr; reading it raises    *)
(*    AttributeError.                                                      *)
(*  - Exceptions carry the name of their Python class.                     *)
(*  - Temperatures and luminosities are integers (the code compares them   *)
(*    with integer thresholds only).                                       *)
(*  - CentralUnit.__init__ as written never completes (_init_commands      *)
(*    indexes subparsers["set_setting"], a key that does not exist, line   *)
(*    257); the model starts from the attribute values that                *)
(*    _init_attributes assigns (lines 103-167), which is the state every   *)
(*    method of the class is written against.                              *)
(***************************************************************************)
EXTENDS Integers, Sequences, FiniteSets, TLC

----------------------------------------------------------------------------
(* Program constants (CentralUnit.py lines 17-29) *)

USER_MODE_AUTO == 1
USER_MODE_OPEN == 2
USER_MODE_CLOSE == 3

SHUTTERS_OPENED == 4
SHUTTERS_CLOSED == 5

PLAIN_DAY == 6
PLAIN_NIGHT == 7

ARDUINO_OPEN_SHUTTERS == 8
ARDUINO_CLOSE_SHUTTERS == 16
ARDUINO_GET_ENV == 32

(* the dwell time of line 434, the solar noon and its span of line 427 *)
HYSTERESIS == 3600
SOLAR_NOON == 13
NOON_SPAN == 4

(* the sensor range tested at line 381 *)
TEMP_MIN == -40
TEMP_MAX == 60

(* the default configuration, lines 133-158 *)
DEFAULT_TIME_CHECK == 600
DEFAULT_SUNRISE == 7
DEFAULT_SUNSET == 19
DEFAULT_LOW_LIGHT == 100
DEFAULT_LOW_TEMP == 0
DEFAULT_HIGH_TEMP == 30

(* Python's None, where the other values are integers *)
NONE == 0

(* the value of an attribute that was never assigned *)
NoAttr == -1

----------------------------------------------------------------------------
(* Bounds of the model *)

\* longest line (in tokens, terminator excluded) the peer sends
MaxLineLen == 5
\* largest data_num_expected an ask call is given
MaxExpected == 3
\* longest answer (in tokens, terminator excluded) to a wait of the handshake
MaxHandshakeLen == 2

----------------------------------------------------------------------------
(* The wire *)

SEP == ";"
CRLF == "CRLF"
Words == {"ERROR", "x", "-50", "20", "500"}

RECURSIVE SeqsUpTo(_, _)
SeqsUpTo(S, n) ==
    IF n = 0 THEN {<<>>}
    ELSE LET shorter == SeqsUpTo(S, n - 1)
         IN  shorter \cup {Append(s, x) : s \in {t \in shorter : Len(t) = n - 1}, x \in S}

NoAdjacentWords(s) ==
    \A i \in 1..(Len(s) - 1) : ~(s[i] \in Words /\ s[i + 1] \in Words)

\* the lines the peer can send, terminator excluded
Lines == {s \in SeqsUpTo(Words \cup {SEP}, MaxLineLen) : NoAdjacentWords(s)}

\* what serial.read_until hands to read_line within the timeout: a complete
\* line with its terminator, or whatever arrived before the timeout (possibly
\* nothing) without one
Received == {Append(l, CRLF) : l \in Lines} \cup Lines

\* the outcome of the serial transport during one ask call: pyserial raises
\* SerialException from write ("write") or from read_until ("read"), or
\* delivers data
Faults == {"none", "write", "read"}
Rx == [fault : Faults, data : Received]

\* ArduinoSerial.read_line: the line without its terminator, or None; before
\* it, the variant that strips the last two characters without looking at them
ReadLineTruncating(data) ==
    [none |-> Len(data) = 0, line |-> SubSeq(data, 1, Len(data) - 1)]

ReadLine(data) ==
    IF Len(data) >= 1 /\ data[Len(data)] = CRLF
    THEN [none |-> FALSE, line |-> SubSeq(data, 1, Len(data) - 1)]
    ELSE [none |-> TRUE, line |-> <<>>]

\* str.split(";"): the fields between the separators, empty ones included
RECURSIVE Split(_)
Split(line) ==
    IF \A i \in 1..Len(line) : line[i] # SEP
    THEN <<line>>
    ELSE LET i == CHOOSE k \in 1..Len(line) :
                      /\ line[k] = SEP
                      /\ \A j \in 1..(k - 1) : line[j] # SEP
         IN  <<SubSeq(line, 1, i - 1)>> \o Split(SubSeq(line, i + 1, Len(line)))

Returned(info, isNone) ==
    [kind |-> "return", exc |-> "", none |-> isNone, info |-> info,
     msg |-> <<>>, sent |-> TRUE]

Raised(exc, msg, wasSent) ==
    [kind |-> "raise", exc |-> exc, none |-> FALSE, info |-> <<>>,
     msg |-> msg, sent |-> wasSent]

\* ArduinoSerial.ask, after the message was written and the read completed
\* (lines 129-138); before it, the variant that counts the fields before it
\* looks for an error line
AskFieldCountFirst(ans, data_num_expected) ==
    IF ~ans.none
    THEN LET info == Split(ans.line)
         IN  IF Len(info) = data_num_expected
             THEN Returned(info, FALSE)
             ELSE IF Len(info) >= 2 /\ info[1] = <<"ERROR">>
                  THEN Raised("ConnectionError", info[2], TRUE)
                  ELSE Raised("ValueError", <<>>, TRUE)
    ELSE IF data_num_expected > 0
         THEN Raised("TimeoutError", <<>>, TRUE)
         ELSE Returned(<<>>, TRUE)

AskAnswer(ans, data_num_expected) ==
    IF ~ans.none
    THEN LET info == Split(ans.line)
         IN  IF Len(info) >= 2 /\ info[1] = <<"ERROR">>
             THEN Raised("ConnectionError", info[2], TRUE)
             ELSE IF Len(info) = data_num_expected
                  THEN Returned(info, FALSE)
                  ELSE Raised("ValueError", <<>>, TRUE)
    ELSE IF data_num_expected > 0
         THEN Raised("TimeoutError", <<>>, TRUE)
         ELSE Returned(<<>>, TRUE)

\* ArduinoSerial.ask: send, read one line, classify it
Ask(rx, data_num_expected) ==
    CASE rx.fault = "write" -> Raised("SerialException", <<>>, FALSE)
      [] rx.fault = "read"  -> Raised("SerialException", <<>>, TRUE)
      [] OTHER -> AskAnswer(ReadLine(rx.data), data_num_expected)

\* ArduinoSerial.__init__ with programmed_for_as=True, as _init_arduino calls
\* it (CentralUnit.py line 87): what the peer can answer to a wait, a
\* complete line or what arrived before the timeout
HandshakeTokens == {"CONNECT", "READY", "x"}

HandshakeReceived ==
    LET lines == SeqsUpTo(HandshakeTokens, MaxHandshakeLen)
    IN  {Append(l, CRLF) : l \in lines} \cup lines

\* the events of the handshake: a read_line with what the port delivered (or
\* the fault it raised), a send with the tokens written
HandshakeRead(fault, data) == [op |-> "read", fault |-> fault, data |-> data]
HandshakeWrite(fault, data) == [op |-> "write", fault |-> fault, data |-> data]

\* the test of lines 30 and 41, read_line(...) != token, negated; before it,
\* the variant that is content with the token at the head of the data
AwaitedLoosely(data, token) ==
    Len(data) >= 1 /\ data[1] = token

Awaited(data, token) ==
    LET ans == ReadLine(data)
    IN  ~ans.none /\ ans.line = <<token>>

\* the handshake that succeeded
Connected ==
    <<HandshakeRead("none", <<"CONNECT", CRLF>>),
      HandshakeWrite("none", <<"1">>),
      HandshakeRead("none", <<"READY", CRLF>>)>>

\* float(): the number a field denotes; a field that denotes none raises
\* ValueError
IsNumber(field) == field \in {<<"-50">>, <<"20">>, <<"500">>}

Float(field) ==
    CASE field = <<"-50">> -> -50
      [] field = <<"20">>  -> 20
      [] field = <<"500">> -> 500
      [] OTHER -> 0

----------------------------------------------------------------------------
(* The decision engine *)

Abs(x) == IF x < 0 THEN -x ELSE x

\* CentralUnit._get_day_time, after three variants of it that each carry one
\* slip: "and" for "or" in the night test, the tracked state ignored at the
\* boundary hours, a strict luminosity comparison
GetDayTimeAndForOr(cfg, state, hour, lum) ==
    LET sunrise_hour == cfg.sunrise_hour
        sunset_hour  == cfg.sunset_hour
        low_lum      == lum <= cfg.low_light_threshold
    IN  IF hour > sunset_hour /\ hour < sunrise_hour THEN PLAIN_NIGHT
        ELSE IF sunset_hour > hour /\ hour > sunrise_hour THEN PLAIN_DAY
        ELSE IF hour = sunrise_hour
             THEN IF low_lum /\ state = SHUTTERS_CLOSED
                  THEN PLAIN_NIGHT
                  ELSE PLAIN_DAY
        ELSE IF hour = sunset_hour
             THEN IF ~low_lum /\ state = SHUTTERS_OPENED
                  THEN PLAIN_DAY
                  ELSE PLAIN_NIGHT
        ELSE NONE

GetDayTimeIgnoringShutters(cfg, state, hour, lum) ==
    LET sunrise_hour == cfg.sunrise_hour
        sunset_hour  == cfg.sunset_hour
        low_lum      == lum <= cfg.low_light_threshold
    IN  IF hour > sunset_hour \/ hour < sunrise_hour THEN PLAIN_NIGHT
        ELSE IF sunset_hour > hour /\ hour > sunrise_hour THEN PLAIN_DAY
        ELSE IF low_lum THEN PLAIN_NIGHT ELSE PLAIN_DAY

GetDayTimeStrictLowLum(cfg, state, hour, lum) ==
    LET sunrise_hour == cfg.sunrise_hour
        sunset_hour  == cfg.sunset_hour
        low_lum      == lum < cfg.low_light_threshold
    IN  IF hour > sunset_hour \/ hour < sunrise_hour THEN PLAIN_NIGHT
        ELSE IF sunset_hour > hour /\ hour > sunrise_hour THEN PLAIN_DAY
        ELSE IF hour = sunrise_hour
             THEN IF low_lum /\ state = SHUTTERS_CLOSED
                  THEN PLAIN_NIGHT
                  ELSE PLAIN_DAY
        ELSE IF hour = sunset_hour
             THEN IF ~low_lum /\ state = SHUTTERS_OPENED
                  THEN PLAIN_DAY
                  ELSE PLAIN_NIGHT
        ELSE NONE

GetDayTime(cfg, state, hour, lum) ==
    LET sunrise_hour == cfg.sunrise_hour
        sunset_hour  == cfg.sunset_hour
        low_lum      == lum <= cfg.low_light_threshold
    IN  IF hour > sunset_hour \/ hour < sunrise_hour THEN PLAIN_NIGHT
        ELSE IF sunset_hour > hour /\ hour > sunrise_hour THEN PLAIN_DAY
        ELSE IF hour = sunrise_hour
             THEN IF low_lum /\ state = SHUTTERS_CLOSED
                  THEN PLAIN_NIGHT
                  ELSE PLAIN_DAY
        ELSE IF hour = sunset_hour
             THEN IF ~low_lum /\ state = SHUTTERS_OPENED
                  THEN PLAIN_DAY
                  ELSE PLAIN_NIGHT
        ELSE NONE

\* the environment override of lines 418-429
EnvOverride(cfg, hour, dst, temp, lum) ==
    /\ cfg.adapt_with_env_in_plain_day
    /\ \/ temp < cfg.low_temp_threshold /\ lum < cfg.low_light_threshold
       \/ /\ temp > cfg.high_temp_threshold
          /\ Abs(hour - (SOLAR_NOON + dst)) <= NOON_SPAN

\* The branch _automatic_shutters takes (lines 412-439): SHUTTERS_CLOSED for
\* the closing branch, SHUTTERS_OPENED for the opening one, NONE when the
\* condition raises AttributeError: "or" evaluates self._last_closed only when
\* the two conditions before it are false, and the attribute exists only once
\* _close_shutters_if_opened has assigned it.  Before it, the variant without
\* the dwell-time test.
AutoTargetWithoutHysteresis(cfg, state, lastClosed, t, hour, dst, temp, lum) ==
    IF \/ GetDayTime(cfg, state, hour, lum) = PLAIN_NIGHT
       \/ EnvOverride(cfg, hour, dst, temp, lum)
    THEN SHUTTERS_CLOSED
    ELSE IF lastClosed = NoAttr THEN NONE
    ELSE SHUTTERS_OPENED

AutoTarget(cfg, state, lastClosed, t, hour, dst, temp, lum) ==
    IF \/ GetDayTime(cfg, state, hour, lum) = PLAIN_NIGHT
       \/ EnvOverride(cfg, hour, dst, temp, lum)
    THEN SHUTTERS_CLOSED
    ELSE IF lastClosed = NoAttr THEN NONE
    ELSE IF lastClosed > t - HYSTERESIS THEN SHUTTERS_CLOSED
    ELSE SHUTTERS_OPENED

----------------------------------------------------------------------------
(* Actuation.  An outcome is what a method leaves behind: the tracked state, *)
(* the close timestamp, the opcodes written to the serial port, and the      *)
(* exception that ended it ("" when it returned).                            *)

Outcome(state, lastClosed, opcodes, exc) ==
    [shutters_state |-> state, last_closed |-> lastClosed,
     sent |-> opcodes, error |-> exc]

Written(r, opcode) == IF r.sent THEN <<opcode>> ELSE <<>>

\* CentralUnit._close_shutters_if_opened; before it, the variant that assigns
\* before it asks, and the variant without the test of the tracked state
CloseShuttersOptimistic(state, lastClosed, t, rx) ==
    IF state # SHUTTERS_CLOSED
    THEN LET r == Ask(rx, 0)
         IN  Outcome(SHUTTERS_CLOSED, t, Written(r, ARDUINO_CLOSE_SHUTTERS),
                     r.exc)
    ELSE Outcome(state, lastClosed, <<>>, "")

CloseShuttersAlways(state, lastClosed, t, rx) ==
    LET r == Ask(rx, 0)
    IN  IF r.kind = "raise"
        THEN Outcome(state, lastClosed,
                     Written(r, ARDUINO_CLOSE_SHUTTERS), r.exc)
        ELSE Outcome(SHUTTERS_CLOSED, t, <<ARDUINO_CLOSE_SHUTTERS>>, "")

CloseShuttersUnstamped(state, lastClosed, t, rx) ==
    IF state # SHUTTERS_CLOSED
    THEN LET r == Ask(rx, 0)
         IN  IF r.kind = "raise"
             THEN Outcome(state, lastClosed,
                          Written(r, ARDUINO_CLOSE_SHUTTERS), r.exc)
             ELSE Outcome(SHUTTERS_CLOSED, lastClosed,
                          <<ARDUINO_CLOSE_SHUTTERS>>, "")
    ELSE Outcome(state, lastClosed, <<>>, "")

CloseShuttersIfOpened(state, lastClosed, t, rx) ==
    IF state # SHUTTERS_CLOSED
    THEN LET r == Ask(rx, 0)
         IN  IF r.kind = "raise"
             THEN Outcome(state, lastClosed,
                          Written(r, ARDUINO_CLOSE_SHUTTERS), r.exc)
             ELSE Outcome(SHUTTERS_CLOSED, t, <<ARDUINO_CLOSE_SHUTTERS>>, "")
    ELSE Outcome(state, lastClosed, <<>>, "")

\* CentralUnit._open_shutters_if_closed; before it, the variant that leaves
\* the shutters alone during the dwell time
OpenShuttersAfterDwell(state, lastClosed, t, rx) ==
    IF lastClosed # NoAttr /\ lastClosed > t - HYSTERESIS
    THEN Outcome(state, lastClosed, <<>>, "")
    ELSE IF state # SHUTTERS_OPENED
    THEN LET r == Ask(rx, 0)
         IN  IF r.kind = "raise"
             THEN Outcome(state, lastClosed,
                          Written(r, ARDUINO_OPEN_SHUTTERS), r.exc)
             ELSE Outcome(SHUTTERS_OPENED, lastClosed,
                          <<ARDUINO_OPEN_SHUTTERS>>, "")
    ELSE Outcome(state, lastClosed, <<>>, "")

\* and the variant without the test of the tracked state
OpenShuttersAlways(state, lastClosed, t, rx) ==
    LET r == Ask(rx, 0)
    IN  IF r.kind = "raise"
        THEN Outcome(state, lastClosed,
                     Written(r, ARDUINO_OPEN_SHUTTERS), r.exc)
        ELSE Outcome(SHUTTERS_OPENED, lastClosed,
                     <<ARDUINO_OPEN_SHUTTERS>>, "")

OpenShuttersIfClosed(state, lastClosed, t, rx) ==
    IF state # SHUTTERS_OPENED
    THEN LET r == Ask(rx, 0)
         IN  IF r.kind = "raise"
             THEN Outcome(state, lastClosed,
                          Written(r, ARDUINO_OPEN_SHUTTERS), r.exc)
             ELSE Outcome(SHUTTERS_OPENED, lastClosed,
                          <<ARDUINO_OPEN_SHUTTERS>>, "")
    ELSE Outcome(state, lastClosed, <<>>, "")

\* CentralUnit._automatic_shutters: the outcome of the branch taken
AutomaticShutters(cfg, state, lastClosed, t, hour, dst, temp, lum, rx) ==
    LET tgt == AutoTarget(cfg, state, lastClosed, t, hour, dst, temp, lum)
    IN  CASE tgt = SHUTTERS_CLOSED ->
                 CloseShuttersIfOpened(state, lastClosed, t, rx)
          [] tgt = SHUTTERS_OPENED ->
                 OpenShuttersIfClosed(state, lastClosed, t, rx)
          [] OTHER -> Outcome(state, lastClosed, <<>>, "AttributeError")

----------------------------------------------------------------------------
(* State *)

VARIABLES
    config,               \* self.__config
    loop,                 \* self.__loop
    shutters_state,       \* self.__shutters_state
    mangled_last_closed,  \* self.__last_closed, assigned at line 108 only
    last_closed,          \* self._last_closed, assigned at line 502 only
    last_check,           \* self.__last_check
    now,                  \* time.time() at the last reading of the clock
    hour,                 \* time.localtime().tm_hour read by the last step
    daylight,             \* time.daylight, fixed for the life of the process
    pc,                   \* where the process stands
    drained,              \* commands of the current drain already run
    sent,                 \* opcodes written to the serial port by the last step
    error,                \* exception that ended the last step, "" if none
    day_moment,           \* what _get_day_time returned in the last step
    target,               \* state the last step drove the shutters to
    temp,                 \* temperature the last step handed to the decision
    lum,                  \* luminosity the last step handed to the decision
    ask_rx,               \* what the serial port delivered to a direct ask call
    ask_expected,         \* data_num_expected of that call
    ask_result,           \* what that call returned or raised
    handshake,            \* the reads and writes of ArduinoSerial.__init__
    last_cmd,             \* the command parse_command was last given
    logged,               \* what that command logged
    forced,               \* a force_update ran since the last update step
    exiting,              \* what _proper_exit did, in order, <<>> before it
    last_actuation,       \* the last actuation opcode written, NONE before it
    inbuf,                \* lines waiting in the input buffer of the port
    requests,             \* ask calls made on the link so far
    unanswered,           \* requests the peer has not replied to yet
    consumed              \* request whose reply the last ask read, 0 if none

vars == <<config, loop, shutters_state, mangled_last_closed, last_closed,
          last_check, now, hour, daylight, pc, drained, sent, error, day_moment,
          target, temp, lum, ask_rx, ask_expected, ask_result, handshake,
          last_cmd, logged, forced, exiting, last_actuation, inbuf, requests,
          unanswered, consumed>>

linkVars == <<inbuf, requests, unanswered, consumed>>

cmdVars == <<last_cmd, logged, forced>>

askVars == <<ask_rx, ask_expected, ask_result>>

loopVars == <<loop, mangled_last_closed, last_check, drained>>

\* the configuration of lines 125-163
DefaultConfig ==
    [user_mode |-> USER_MODE_AUTO,
     time_check |-> DEFAULT_TIME_CHECK,
     sunrise_hour |-> DEFAULT_SUNRISE,
     sunset_hour |-> DEFAULT_SUNSET,
     low_light_threshold |-> DEFAULT_LOW_LIGHT,
     low_temp_threshold |-> DEFAULT_LOW_TEMP,
     high_temp_threshold |-> DEFAULT_HIGH_TEMP,
     adapt_with_env_in_plain_day |-> TRUE]

\* the clock at start-up, well past the origin as any real clock is
StartTime == 2 * HYSTERESIS

NoRx == [fault |-> "none", data |-> <<>>]
NoAsk == Returned(<<>>, TRUE)

\* nothing asked, nothing decided, nothing sent yet
Quiet ==
    /\ drained = 0
    /\ hour = 0
    /\ sent = <<>>
    /\ error = ""
    /\ day_moment = NONE
    /\ target = NONE
    /\ temp = 0
    /\ lum = 0
    /\ ask_rx = NoRx
    /\ ask_expected = 0
    /\ ask_result = NoAsk
    /\ last_cmd = [command |-> "", options |-> <<>>, name |-> ""]
    /\ logged = {}
    /\ forced = FALSE
    /\ exiting = <<>>
    /\ last_actuation = NONE
    /\ inbuf = <<>>
    /\ requests = 0
    /\ unanswered = {}
    /\ consumed = 0

\* the attributes after _init_attributes (lines 103-167)
Fresh ==
    /\ config = DefaultConfig
    /\ loop = TRUE
    /\ shutters_state = SHUTTERS_OPENED
    /\ mangled_last_closed = 0
    /\ last_closed = NoAttr
    /\ now = StartTime
    /\ last_check = StartTime - DEFAULT_TIME_CHECK
    /\ daylight \in {0, 1}

\* the values the tracked state and the close timestamp can have together at
\* time t: the timestamp exists once the shutters were closed, and then
\* holds a past reading of the clock, whatever was done to the shutters since
Tracked(t, closeTimes) ==
    {<<SHUTTERS_OPENED, NoAttr>>}
    \cup {<<s, c>> : s \in {SHUTTERS_OPENED, SHUTTERS_CLOSED},
                     c \in {x \in closeTimes : x <= t}}

\* what the peer does with an actuation opcode: stays silent, acknowledges
\* with an empty line, reports an error, or the serial port fails
ActReplies ==
    {[fault |-> "none", data |-> <<>>],
     [fault |-> "none", data |-> <<CRLF>>],
     [fault |-> "none", data |-> <<"ERROR", SEP, "x", CRLF>>],
     [fault |-> "write", data |-> <<>>],
     [fault |-> "read", data |-> <<>>]}

----------------------------------------------------------------------------
(* One step of the unit.  A step record is what _update_shutters leaves     *)
(* behind: the attributes it assigns and what it read, decided and wrote.   *)

\* the last of the opcodes 8 and 16 written so far (lines 497 and 516), given
\* the one before the step and the opcodes the step wrote
RECURSIVE LastActuation(_, _)
LastActuation(before, opcodes) ==
    IF opcodes = <<>> THEN before
    ELSE LET opcode == opcodes[Len(opcodes)]
         IN  IF opcode \in {ARDUINO_OPEN_SHUTTERS, ARDUINO_CLOSE_SHUTTERS}
             THEN opcode
             ELSE LastActuation(before, SubSeq(opcodes, 1, Len(opcodes) - 1))

Step(out, before, lastCheck, tgt, h, moment, tp, l) ==
    [shutters_state |-> out.shutters_state,
     last_closed |-> out.last_closed,
     sent |-> before \o out.sent,
     error |-> out.error,
     last_check |-> lastCheck,
     target |-> tgt,
     hour |-> h,
     day_moment |-> moment,
     temp |-> tp,
     lum |-> l]

\* CentralUnit._automatic_shutters with what it read and decided
AutomaticStep(cfg, state, lastClosed, lastCheck, t, h, dst, tp, l, r, before) ==
    Step(AutomaticShutters(cfg, state, lastClosed, t, h, dst, tp, l, r),
         before, lastCheck,
         AutoTarget(cfg, state, lastClosed, t, h, dst, tp, l),
         h, GetDayTime(cfg, state, h, l), tp, l)

Reply(line) == [fault |-> "none", data |-> Append(line, CRLF)]

\* what the peer does with the environment query: stays silent, reports an
\* error, sends one field, sends text that is no number, sends two numbers,
\* or the serial port fails
EnvReplies ==
    {[fault |-> "none", data |-> <<>>],
     [fault |-> "write", data |-> <<>>],
     [fault |-> "read", data |-> <<>>],
     Reply(<<"ERROR", SEP, "x">>),
     Reply(<<"20">>),
     Reply(<<"x", SEP, "20">>)}
    \cup {Reply(<<t, SEP, l>>) : t \in {"-50", "20", "500"},
                                 l \in {"-50", "20", "500"}}

Reading(exc, t, l, opcodes) ==
    [error |-> exc, temp |-> t, lum |-> l, sent |-> opcodes]

\* CentralUnit._check_luminosity_and_temp
CheckLuminosityAndTemp(r) ==
    LET a == Ask(r, 2)
    IN  IF a.kind = "raise"
        THEN Reading(a.exc, 0, 0, Written(a, ARDUINO_GET_ENV))
        ELSE IF ~IsNumber(a.info[1])
        THEN Reading("ValueError", 0, 0, <<ARDUINO_GET_ENV>>)
        ELSE IF TEMP_MIN <= Float(a.info[1]) /\ Float(a.info[1]) <= TEMP_MAX
        THEN Reading("ValueError", 0, 0, <<ARDUINO_GET_ENV>>)
        ELSE IF ~IsNumber(a.info[2])
        THEN Reading("ValueError", 0, 0, <<ARDUINO_GET_ENV>>)
        ELSE IF Float(a.info[2]) < 0
        THEN Reading("ValueError", 0, 0, <<ARDUINO_GET_ENV>>)
        ELSE Reading("", Float(a.info[1]), Float(a.info[2]),
                     <<ARDUINO_GET_ENV>>)

\* the test of lines 362-368; before it, the variant that also fires when
\* exactly time_check seconds elapsed
RecheckDueOrEqual(cfg, lastCheck, t) ==
    /\ cfg.user_mode = USER_MODE_AUTO
    /\ t - lastCheck >= cfg.time_check

RecheckDue(cfg, lastCheck, t) ==
    /\ cfg.user_mode = USER_MODE_AUTO
    /\ t - lastCheck > cfg.time_check

\* the hours the loop is run at: night, sunrise, the first hour of the midday
\* span (which time.daylight moves), sunset
LoopHours == {3, DEFAULT_SUNRISE, SOLAR_NOON - NOON_SPAN, DEFAULT_SUNSET}

\* CentralUnit._update_shutters at time t: every way the step can end, over
\* what the peer answers and the hour it is
UpdateResults(cfg, state, lastClosed, lastCheck, t, dst) ==
    IF cfg.user_mode = USER_MODE_OPEN
    THEN {Step(OpenShuttersIfClosed(state, lastClosed, t, r), <<>>,
               lastCheck, SHUTTERS_OPENED, 0, NONE, 0, 0) : r \in ActReplies}
    ELSE IF cfg.user_mode = USER_MODE_CLOSE
    THEN {Step(CloseShuttersIfOpened(state, lastClosed, t, r), <<>>,
               lastCheck, SHUTTERS_CLOSED, 0, NONE, 0, 0) : r \in ActReplies}
    ELSE IF RecheckDue(cfg, lastCheck, t)
    THEN UNION {
           LET env == CheckLuminosityAndTemp(re)
           IN  IF env.error # ""
               THEN {Step(Outcome(state, lastClosed, <<>>, env.error),
                          env.sent, lastCheck, NONE, 0, NONE, 0, 0)}
               ELSE {LET s == AutomaticStep(cfg, state, lastClosed, lastCheck,
                                            t, h, dst, env.temp, env.lum, ra,
                                            env.sent)
                     IN  IF s.error = "" THEN [s EXCEPT !.last_check = t]
                         ELSE s
                     : h \in LoopHours, ra \in ActReplies}
           : re \in EnvReplies}
    ELSE {Step(Outcome(state, lastClosed, <<>>, ""), <<>>, lastCheck,
               NONE, 0, NONE, 0, 0)}

----------------------------------------------------------------------------
(* Operator commands.  A command is its name, its options in the order     *)
(* given, each an option name and the text of its value, and the           *)
(* positional argument of get_setting ("" when absent).                    *)

Command(name, options, positional) ==
    [command |-> name, options |-> options, name |-> positional]

SettingNames ==
    {"user_mode", "time_check", "sunrise_hour", "sunset_hour",
     "low_light_threshold", "low_temp_threshold", "high_temp_threshold",
     "adapt_with_env_in_plain_day"}

\* int() and str() on the texts the operator types: the integer a text
\* denotes (any other text raises ValueError), and the text of an integer
Numerals ==
    {<<"-41", -41>>, <<"-40", -40>>, <<"-1", -1>>, <<"0", 0>>, <<"1", 1>>,
     <<"2", 2>>, <<"3", 3>>, <<"7", 7>>, <<"8", 8>>, <<"9", 9>>,
     <<"10", 10>>, <<"13", 13>>, <<"14", 14>>, <<"16", 16>>, <<"17", 17>>,
     <<"19", 19>>, <<"22", 22>>, <<"23", 23>>, <<"30", 30>>, <<"60", 60>>,
     <<"61", 61>>, <<"100", 100>>, <<"600", 600>>, <<"3600", 3600>>}

IsInt(text) == \E n \in Numerals : n[1] = text

IntOf(text) ==
    IF IsInt(text) THEN (CHOOSE n \in Numerals : n[1] = text)[2] ELSE 0

Str(val) ==
    IF \E n \in Numerals : n[2] = val
    THEN (CHOOSE n \in Numerals : n[2] = val)[1]
    ELSE "?"

\* str() of the value of a setting, a boolean for the adaptation flag
SettingText(cfg, name) ==
    IF name = "adapt_with_env_in_plain_day"
    THEN (IF cfg[name] THEN "True" ELSE "False")
    ELSE Str(cfg[name])

\* the type= and choices= of each option of set_settings (lines 189-292):
\* whether argparse accepts the text; before it, the variant that only asks
\* for an integer
AcceptsAnyInt(option, text) ==
    option \in {"user_mode", "time_check", "sunrise_hour", "sunset_hour",
                "low_light_threshold", "low_temp_threshold",
                "high_temp_threshold", "adapt_with_env_in_plain_day"}
    /\ IsInt(text)

\* the variant whose two temperature ranges meet at 17
AcceptsOverlapping(option, text) ==
    /\ IsInt(text)
    /\ LET val == IntOf(text)
       IN  CASE option = "user_mode" ->
                    val \in {USER_MODE_AUTO, USER_MODE_OPEN, USER_MODE_CLOSE}
             [] option = "time_check" -> val >= 0
             [] option = "sunrise_hour" -> val \in 0..9
             [] option = "sunset_hour" -> val \in 14..22
             [] option = "low_light_threshold" -> val >= 0
             [] option = "low_temp_threshold" -> -40 <= val /\ val <= 17
             [] option = "high_temp_threshold" -> 17 <= val /\ val <= 60
             [] option = "adapt_with_env_in_plain_day" -> TRUE
             [] OTHER -> FALSE

Accepts(option, text) ==
    /\ IsInt(text)
    /\ LET val == IntOf(text)
       IN  CASE option = "user_mode" ->
                    val \in {USER_MODE_AUTO, USER_MODE_OPEN, USER_MODE_CLOSE}
             [] option = "time_check" -> val >= 0
             [] option = "sunrise_hour" -> val \in 0..9
             [] option = "sunset_hour" -> val \in 14..22
             [] option = "low_light_threshold" -> val >= 0
             [] option = "low_temp_threshold" -> -40 <= val /\ val <= 16
             [] option = "high_temp_threshold" -> 17 <= val /\ val <= 60
             [] option = "adapt_with_env_in_plain_day" -> TRUE
             [] OTHER -> FALSE

\* whether self.__argparser.parse_args accepts the command (lines 585-596).
\* The parser is an argparseNoExit.ArgumentParserNoExit, a module that is
\* not among the sources at hand: it is taken to refuse a command the way
\* the except clauses of lines 587-596 expect, by raising ArgumentError,
\* TypeError or ValueError, and to accept what the add_argument calls of
\* lines 257-299 describe.
Parses(cmd) ==
    CASE cmd.command = "set_settings" ->
             /\ cmd.name = ""
             /\ \A k \in DOMAIN cmd.options :
                   /\ cmd.options[k][1] \in SettingNames
                   /\ Accepts(cmd.options[k][1], cmd.options[k][2])
      [] cmd.command = "get_setting" ->
             cmd.options = <<>> /\ cmd.name \in SettingNames
      [] cmd.command \in {"force_update", "shutdown"} ->
             cmd.options = <<>> /\ cmd.name = ""
      [] OTHER -> FALSE

\* CentralUnit._cmd_set_settings: every option given is stored, the last
\* value of a repeated option winning; before it, the variant that stores
\* the first option only
SetSettingsFirstOnly(cfg, options) ==
    IF options = <<>> THEN cfg
    ELSE [cfg EXCEPT ![Head(options)[1]] =
             IF Head(options)[1] = "adapt_with_env_in_plain_day"
             THEN IntOf(Head(options)[2]) # 0
             ELSE IntOf(Head(options)[2])]

RECURSIVE SetSettings(_, _)
SetSettings(cfg, options) ==
    IF options = <<>> THEN cfg
    ELSE LET option == Head(options)[1]
             val == IntOf(Head(options)[2])
         IN  SetSettings(
                 [cfg EXCEPT ![option] =
                     IF option = "adapt_with_env_in_plain_day"
                     THEN val # 0 ELSE val],
                 Tail(options))

\* a call of self._log_fn by a command: the log type, and the setting and
\* the text of its value that the message holds ("" where it holds none)
Log(type, name, text) == [type |-> type, name |-> name, text |-> text]

\* the status lines of _cmd_set_settings, one for every option given
SetSettingsLogs(cfg, options) ==
    {Log("status", options[k][1], SettingText(cfg, options[k][1])) :
        k \in DOMAIN options}

\* the attributes a command can change, the exception it ended with and
\* what it logged
Unit(cfg, running, lastCheck, exc) ==
    [config |-> cfg, loop |-> running, last_check |-> lastCheck,
     error |-> exc, logged |-> {}]

\* CentralUnit.parse_command: a command argparse refuses is logged as an
\* error and dropped; the others run the method _cmd_<command>, and there
\* is none for get_setting (the method is named _cmd_log_setting), so
\* getattr raises AttributeError; before it, the variant that lets the
\* refusal of argparse through
ParseCommandRaising(u, cmd) ==
    IF ~Parses(cmd) THEN [u EXCEPT !.error = "ArgumentError"]
    ELSE LET v == [u EXCEPT !.logged = {Log("debug", "", "")}]
         IN  CASE cmd.command = "set_settings" ->
                  LET cfg == SetSettings(u.config, cmd.options)
                  IN  [v EXCEPT !.config = cfg,
                                !.logged = @ \cup
                                    SetSettingsLogs(cfg, cmd.options)]
           [] cmd.command = "force_update" ->
                  [v EXCEPT !.last_check = @ - (u.config.time_check + 1)]
           [] cmd.command = "shutdown" -> [v EXCEPT !.loop = FALSE]
           [] OTHER -> [v EXCEPT !.error = "AttributeError"]

ParseCommand(u, cmd) ==
    IF ~Parses(cmd) THEN [u EXCEPT !.logged = {Log("error", "", "")}]
    ELSE LET v == [u EXCEPT !.logged = {Log("debug", "", "")}]
         IN  CASE cmd.command = "set_settings" ->
                  LET cfg == SetSettings(u.config, cmd.options)
                  IN  [v EXCEPT !.config = cfg,
                                !.logged = @ \cup
                                    SetSettingsLogs(cfg, cmd.options)]
           [] cmd.command = "force_update" ->
                  [v EXCEPT !.last_check = @ - (u.config.time_check + 1)]
           [] cmd.command = "shutdown" -> [v EXCEPT !.loop = FALSE]
           [] OTHER -> [v EXCEPT !.error = "AttributeError"]

----------------------------------------------------------------------------
(* The control loop: CentralUnit.loop alternates _update_shutters and       *)
(* _run_commands until a command clears self.__loop; any exception leaves   *)
(* through _proper_exit(1, e).  pc is "update" before _update_shutters,     *)
(* "commands" inside the for loop of _run_commands, "exit(0)" or "exit(1)"  *)
(* once _proper_exit has run.  Before the loop, CentralUnit.__init__ runs   *)
(* the handshake of ArduinoSerial.__init__ ("wait_connect", "signal",       *)
(* "wait_ready") and the initialisation command ("init_command"); "loop" is *)
(* the unit constructed, loop() not yet called.                             *)

\* bounds of the loop model: the clock stops MaxTicks half dwell times
\* after start-up, and get_cmds hands over at most MaxCmds commands at a time
MaxTicks == 2
MaxCmds == 2

\* the step of the clock: longer than the default recheck period, half the
\* dwell time
Tick == HYSTERESIS \div 2

MaxNow == StartTime + MaxTicks * Tick

\* how far the clock moves between two iterations
Advances == {0, Tick, HYSTERESIS}

\* the commands the operator sends to the loop
LoopCommands ==
    {Command("set_settings", <<<<"user_mode", m>>>>, "") :
         m \in {"1", "2", "3", "9"}}
    \cup {Command("set_settings", <<<<"time_check", v>>>>, "") :
              v \in {"0", "600", "-1"}}
    \cup {Command("set_settings",
                  <<<<"user_mode", "2">>, <<"time_check", "-1">>>>, ""),
          Command("force_update", <<>>, ""),
          Command("shutdown", <<>>, ""),
          Command("get_setting", <<>>, "sunrise_hour"),
          Command("bogus", <<>>, "")}

\* CentralUnit._proper_exit: what it does, in order.  The error is logged
\* when there is one, then "shutting down"; the del statement drops
\* self._Communicator, then self.arduino, which does not exist when
\* ArduinoSerial.__init__ raised (the AttributeError is caught); exit(code)
\* comes last.  Before it, the variant that drops the references first.
ProperExitReleasingFirst(code, exc, linked) ==
    <<"del _Communicator">>
    \o (IF linked THEN <<"del arduino">> ELSE <<>>)
    \o (IF exc # "" THEN <<"log error">> ELSE <<>>)
    \o <<"log shutting down">>
    \o <<IF code = 0 THEN "exit(0)" ELSE "exit(1)">>

ProperExit(code, exc, linked) ==
    (IF exc # "" THEN <<"log error">> ELSE <<>>)
    \o <<"log shutting down">>
    \o <<"del _Communicator">>
    \o (IF linked THEN <<"del arduino">> ELSE <<>>)
    \o <<IF code = 0 THEN "exit(0)" ELSE "exit(1)">>

\* the except and else clauses of CentralUnit.__init__ (lines 70-71) and of
\* CentralUnit.loop (lines 340-343): _proper_exit(1, e) on an exception,
\* _proper_exit(0) once the while is over, nothing while the process goes on
ExitTrace(exc, next, linked) ==
    IF next = "exit(1)" THEN ProperExit(1, exc, linked)
    ELSE IF next = "exit(0)" THEN ProperExit(0, "", linked)
    ELSE <<>>

\* CentralUnit.__init__, lines 66-71: an exception of _init_arduino or of
\* parse_command ends in _proper_exit(1, e); before it, the variant that
\* carries on
AfterInitCarryingOn(exc, next) == next

AfterInit(exc, next) == IF exc = "" THEN next ELSE "exit(1)"

\* ArduinoSerial.send: the string and its line ending
Send(string, line_ending) == <<string>> \o line_ending

\* what a wait of the handshake can end with: the port delivers data or
\* raises SerialException
HandshakeReads ==
    {HandshakeRead("none", d) : d \in HandshakeReceived}
    \cup {HandshakeRead("read", <<>>)}

\* the exception a wait for the token ends with, "" if none
WaitError(read, token) ==
    IF read.fault # "none" THEN "SerialException"
    ELSE IF Awaited(read.data, token) THEN ""
    ELSE "ConnectionError"

initVars == <<config, loop, shutters_state, mangled_last_closed, last_closed,
              last_check, now, hour, daylight, drained, sent, day_moment,
              target, temp, lum>>

\* ArduinoSerial.__init__, lines 29-32: the wait for CONNECT
WaitConnect ==
    /\ pc = "wait_connect"
    /\ \E read \in HandshakeReads :
          /\ handshake' = Append(handshake, read)
          /\ error' = WaitError(read, "CONNECT")
          /\ pc' = AfterInit(WaitError(read, "CONNECT"), "signal")
          /\ exiting' = ExitTrace(error', pc', FALSE)
    /\ UNCHANGED <<initVars, askVars, cmdVars>>
    /\ UNCHANGED last_actuation
    /\ UNCHANGED linkVars

\* lines 34-37: the signal, one character without line ending
SendSignal ==
    /\ pc = "signal"
    /\ \E fault \in {"none", "write"} :
          /\ handshake' = Append(handshake,
                                 HandshakeWrite(fault, Send("1", <<>>)))
          /\ error' = IF fault = "none" THEN "" ELSE "SerialException"
          /\ pc' = AfterInit(IF fault = "none" THEN "" ELSE "SerialException",
                             "wait_ready")
          /\ exiting' = ExitTrace(error', pc', FALSE)
    /\ UNCHANGED <<initVars, askVars, cmdVars>>
    /\ UNCHANGED last_actuation
    /\ UNCHANGED linkVars

\* lines 39-43: the wait for READY
WaitReady ==
    /\ pc = "wait_ready"
    /\ \E read \in HandshakeReads :
          /\ handshake' = Append(handshake, read)
          /\ error' = WaitError(read, "READY")
          /\ pc' = AfterInit(WaitError(read, "READY"), "init_command")
          /\ exiting' = ExitTrace(error', pc', FALSE)
    /\ UNCHANGED <<initVars, askVars, cmdVars>>
    /\ UNCHANGED last_actuation
    /\ UNCHANGED linkVars

\* CentralUnit.__init__, line 69: parse_command(initialisation_command)
InitialisationCommand ==
    /\ pc = "init_command"
    /\ \E cmd \in LoopCommands :
          LET u == ParseCommand(Unit(config, loop, last_check, ""), cmd)
          IN  /\ config' = u.config
              /\ loop' = u.loop
              /\ last_check' = u.last_check
              /\ error' = u.error
              /\ last_cmd' = cmd
              /\ logged' = u.logged
              /\ forced' = (Parses(cmd) /\ cmd.command = "force_update")
              /\ pc' = AfterInit(u.error, "loop")
              /\ exiting' = ExitTrace(error', pc', TRUE)
    /\ UNCHANGED <<shutters_state, mangled_last_closed, last_closed, now,
                   hour, daylight, drained, sent, day_moment, target, temp,
                   lum>>
    /\ UNCHANGED <<askVars, handshake>>
    /\ UNCHANGED last_actuation
    /\ UNCHANGED linkVars

\* CentralUnit.loop is called: the first test of the while
EnterLoop ==
    /\ pc = "loop"
    /\ pc' = IF loop THEN "update" ELSE "exit(0)"
    /\ exiting' = ExitTrace("", pc', TRUE)
    /\ UNCHANGED <<initVars, error, askVars, handshake, cmdVars>>
    /\ UNCHANGED last_actuation
    /\ UNCHANGED linkVars

NothingParsed ==
    /\ last_cmd' = [command |-> "", options |-> <<>>, name |-> ""]
    /\ logged' = {}

NothingSent ==
    /\ sent' = <<>>
    /\ target' = NONE
    /\ hour' = 0
    /\ day_moment' = NONE
    /\ temp' = 0
    /\ lum' = 0

\* one iteration's call of _update_shutters; loop() catches every exception
\* and leaves through _proper_exit(1, e)
UpdateShutters ==
    /\ pc = "update"
    /\ \E dt \in Advances :
          /\ now + dt <= MaxNow
          /\ now' = now + dt
          /\ \E s \in UpdateResults(config, shutters_state, last_closed,
                                    last_check, now + dt, daylight) :
                /\ shutters_state' = s.shutters_state
                /\ last_closed' = s.last_closed
                /\ last_check' = s.last_check
                /\ sent' = s.sent
                /\ error' = s.error
                /\ target' = s.target
                /\ hour' = s.hour
                /\ day_moment' = s.day_moment
                /\ temp' = s.temp
                /\ lum' = s.lum
                /\ pc' = IF s.error = "" THEN "commands" ELSE "exit(1)"
                /\ exiting' = ExitTrace(error', pc', TRUE)
                /\ last_actuation' = LastActuation(last_actuation, s.sent)
    /\ NothingParsed
    /\ forced' = FALSE
    /\ UNCHANGED <<config, loop, mangled_last_closed, daylight, drained>>
    /\ UNCHANGED <<askVars, handshake>>
    /\ UNCHANGED linkVars

\* one turn of the for loop of _run_commands: parse_command on the next
\* command.  The operator asks for a forced update only while none is due,
\* which keeps last_check within bounds.
RunCommand ==
    /\ pc = "commands"
    /\ drained < MaxCmds
    /\ \E cmd \in LoopCommands :
          LET u == ParseCommand(Unit(config, loop, last_check, ""), cmd)
          IN  /\ cmd.command = "force_update"
                     => now - last_check <= config.time_check
              /\ config' = u.config
              /\ loop' = u.loop
              /\ last_check' = u.last_check
              /\ error' = u.error
              /\ last_cmd' = cmd
              /\ logged' = u.logged
              /\ forced' = (forced \/ (Parses(cmd)
                                          /\ cmd.command = "force_update"))
              /\ pc' = IF u.error # "" THEN "exit(1)" ELSE "commands"
              /\ exiting' = ExitTrace(error', pc', TRUE)
    /\ drained' = drained + 1
    /\ NothingSent
    /\ UNCHANGED <<shutters_state, mangled_last_closed, last_closed, now,
                   daylight>>
    /\ UNCHANGED <<askVars, handshake>>
    /\ UNCHANGED last_actuation
    /\ UNCHANGED linkVars

\* the for loop is over: the test of the while, and _proper_exit(0) once
\* self.__loop is False
EndOfCommands ==
    /\ pc = "commands"
    /\ pc' = IF loop THEN "update" ELSE "exit(0)"
    /\ exiting' = ExitTrace("", pc', TRUE)
    /\ drained' = 0
    /\ error' = ""
    /\ NothingSent
    /\ NothingParsed
    /\ UNCHANGED forced
    /\ UNCHANGED <<config, loop, shutters_state, mangled_last_closed,
                   last_closed, last_check, now, daylight>>
    /\ UNCHANGED <<askVars, handshake>>
    /\ UNCHANGED last_actuation
    /\ UNCHANGED linkVars

Init ==
    /\ Fresh
    /\ Quiet
    /\ handshake = <<>>
    /\ pc = "wait_connect"

Next ==
    \/ WaitConnect
    \/ SendSignal
    \/ WaitReady
    \/ InitialisationCommand
    \/ EnterLoop
    \/ UpdateShutters
    \/ RunCommand
    \/ EndOfCommands

Spec == Init /\ [][Next]_vars

----------------------------------------------------------------------------
(* ArduinoSerial.ask on every line the peer can send *)

InitAsk ==
    /\ Fresh
    /\ Quiet
    /\ handshake = Connected
    /\ pc = "ask"

AskCall ==
    /\ pc = "ask"
    /\ \E r \in Rx, n \in 0..MaxExpected :
          /\ ask_rx' = r
          /\ ask_expected' = n
          /\ ask_result' = Ask(r, n)
    /\ pc' = "asked"
    /\ UNCHANGED <<config, shutters_state, last_closed, now, hour, daylight,
                   sent, error, day_moment, target, temp, lum>>
    /\ UNCHANGED <<loopVars, handshake, cmdVars>>
    /\ UNCHANGED exiting
    /\ UNCHANGED last_actuation
    /\ UNCHANGED linkVars

SpecAsk == InitAsk /\ [][AskCall]_vars

----------------------------------------------------------------------------
(* CentralUnit._check_luminosity_and_temp on every line the peer can send *)

InitEnv ==
    /\ Fresh
    /\ Quiet
    /\ handshake = Connected
    /\ pc = "check"

CheckLuminosityAndTempCall ==
    /\ pc = "check"
    /\ \E r \in Rx :
          LET env == CheckLuminosityAndTemp(r)
          IN  /\ ask_rx' = r
              /\ ask_expected' = 2
              /\ ask_result' = Ask(r, 2)
              /\ error' = env.error
              /\ temp' = env.temp
              /\ lum' = env.lum
              /\ sent' = env.sent
    /\ pc' = "checked"
    /\ UNCHANGED <<config, shutters_state, last_closed, now, hour, daylight,
                   day_moment, target>>
    /\ UNCHANGED <<loopVars, handshake, cmdVars>>
    /\ UNCHANGED exiting
    /\ UNCHANGED last_actuation
    /\ UNCHANGED linkVars

SpecEnv == InitEnv /\ [][CheckLuminosityAndTempCall]_vars

----------------------------------------------------------------------------
(* CentralUnit._get_day_time on every hour of the day, for every sunrise   *)
(* and sunset hour the validators of lines 267-276 accept                  *)

DayTimeConfigs ==
    {[DefaultConfig EXCEPT !.sunrise_hour = sr, !.sunset_hour = ss,
                           !.low_light_threshold = ll] :
        sr \in 0..9, ss \in 14..22, ll \in {0, DEFAULT_LOW_LIGHT}}

DayTimeLums == {0, 1, DEFAULT_LOW_LIGHT - 1, DEFAULT_LOW_LIGHT,
                DEFAULT_LOW_LIGHT + 1}

InitDayTime ==
    /\ Quiet
    /\ handshake = Connected
    /\ config \in DayTimeConfigs
    /\ loop = TRUE
    /\ now = StartTime
    /\ \E p \in Tracked(StartTime, {StartTime}) :
          shutters_state = p[1] /\ last_closed = p[2]
    /\ mangled_last_closed = 0
    /\ last_check = now
    /\ daylight = 0
    /\ pc = "day_time"

GetDayTimeCall ==
    /\ pc = "day_time"
    /\ \E h \in 0..23, l \in DayTimeLums :
          /\ hour' = h
          /\ lum' = l
          /\ day_moment' = GetDayTime(config, shutters_state, h, l)
    /\ pc' = "classified"
    /\ UNCHANGED <<config, shutters_state, last_closed, now, daylight, sent,
                   error, target, temp>>
    /\ UNCHANGED <<loopVars, askVars, handshake, cmdVars>>
    /\ UNCHANGED exiting
    /\ UNCHANGED last_actuation
    /\ UNCHANGED linkVars

SpecDayTime == InitDayTime /\ [][GetDayTimeCall]_vars

----------------------------------------------------------------------------
(* CentralUnit._automatic_shutters on snapshots around the thresholds, from *)
(* every tracked state, with close timestamps around the dwell time         *)

AutoConfigs ==
    {[DefaultConfig EXCEPT !.sunrise_hour = sr, !.sunset_hour = ss,
                           !.low_light_threshold = ll,
                           !.adapt_with_env_in_plain_day = ad] :
        sr \in {DEFAULT_SUNRISE, 9}, ss \in {DEFAULT_SUNSET},
        ll \in {DEFAULT_LOW_LIGHT}, ad \in BOOLEAN}

AutoTemps == {DEFAULT_LOW_TEMP - 1, DEFAULT_LOW_TEMP,
              DEFAULT_HIGH_TEMP, DEFAULT_HIGH_TEMP + 5}

AutoLums == {0, DEFAULT_LOW_LIGHT - 1, DEFAULT_LOW_LIGHT, 500}

AutoNow == StartTime + HYSTERESIS + 1

AutoCloseTimes ==
    {AutoNow - d : d \in {0, 1, HYSTERESIS - 1, HYSTERESIS, HYSTERESIS + 1}}

InitAuto ==
    /\ Quiet
    /\ handshake = Connected
    /\ config \in AutoConfigs
    /\ loop = TRUE
    /\ now = AutoNow
    /\ \E p \in Tracked(AutoNow, AutoCloseTimes) :
          shutters_state = p[1] /\ last_closed = p[2]
    /\ mangled_last_closed = 0
    /\ last_check = now
    /\ daylight \in {0, 1}
    /\ pc = "auto"

AutomaticShuttersCall ==
    /\ pc = "auto"
    /\ \E s \in {AutomaticStep(config, shutters_state, last_closed,
                                last_check, now, h, daylight, tp, l, r, <<>>) :
                      h \in 0..23, tp \in AutoTemps, l \in AutoLums,
                      r \in ActReplies} :
          /\ shutters_state' = s.shutters_state
          /\ last_closed' = s.last_closed
          /\ sent' = s.sent
          /\ error' = s.error
          /\ target' = s.target
          /\ hour' = s.hour
          /\ day_moment' = s.day_moment
          /\ temp' = s.temp
          /\ lum' = s.lum
          /\ last_actuation' = LastActuation(last_actuation, s.sent)
    /\ pc' = "decided"
    /\ UNCHANGED <<config, now, daylight>>
    /\ UNCHANGED <<loopVars, askVars, handshake, cmdVars>>
    /\ UNCHANGED exiting
    /\ UNCHANGED linkVars

SpecAuto == InitAuto /\ [][AutomaticShuttersCall]_vars

----------------------------------------------------------------------------
(* CentralUnit.parse_command on the commands an operator can type, one     *)
(* after the other: every option of set_settings with texts around the     *)
(* limits of its validator, some commands with two options, get_setting,   *)
(* and commands argparse refuses                                           *)

\* how many commands are parsed in a row
MaxParsed == 3

SettingTexts(option) ==
    CASE option = "user_mode" -> {"0", "1", "2", "3", "x"}
      [] option = "time_check" -> {"-1", "0", "3600"}
      [] option = "sunrise_hour" -> {"-1", "0", "8", "9", "10"}
      [] option = "sunset_hour" -> {"13", "14", "22", "23"}
      [] option = "low_light_threshold" -> {"-1", "0"}
      [] option = "low_temp_threshold" -> {"-41", "-40", "16", "17"}
      [] option = "high_temp_threshold" -> {"16", "17", "60", "61"}
      [] option = "adapt_with_env_in_plain_day" -> {"0", "1", "x"}
      [] OTHER -> {}

SettingCommands ==
    UNION {{Command("set_settings", <<<<o, t>>>>, "") : t \in SettingTexts(o)} :
               o \in SettingNames}
    \cup {Command("set_settings", options, "") :
              options \in {<<>>,
                           <<<<"colour", "1">>>>,
                           <<<<"sunrise_hour", "8">>, <<"sunset_hour", "22">>>>,
                           <<<<"sunrise_hour", "8">>, <<"sunrise_hour", "9">>>>,
                           <<<<"sunrise_hour", "8">>, <<"sunset_hour", "23">>>>,
                           <<<<"low_temp_threshold", "17">>,
                             <<"high_temp_threshold", "17">>>>}}
    \cup {Command("get_setting", <<>>, n) :
              n \in {"sunrise_hour", "adapt_with_env_in_plain_day", "colour",
                     ""}}
    \cup {Command("bogus", <<>>, "")}

InitCommands ==
    /\ Fresh
    /\ Quiet
    /\ handshake = Connected
    /\ pc = "parse"

ParseCommandCall ==
    /\ pc = "parse"
    /\ drained < MaxParsed
    /\ \E cmd \in SettingCommands :
          LET u == ParseCommand(Unit(config, loop, last_check, ""), cmd)
          IN  /\ config' = u.config
              /\ loop' = u.loop
              /\ last_check' = u.last_check
              /\ error' = u.error
              /\ last_cmd' = cmd
              /\ logged' = u.logged
              /\ pc' = IF u.error # "" THEN "exit(1)" ELSE "parse"
    /\ drained' = drained + 1
    /\ UNCHANGED <<shutters_state, mangled_last_closed, last_closed, now,
                   hour, daylight, sent, day_moment, target, temp, lum,
                   forced>>
    /\ UNCHANGED <<askVars, handshake>>
    /\ UNCHANGED exiting
    /\ UNCHANGED last_actuation
    /\ UNCHANGED linkVars

SpecCommands == InitCommands /\ [][ParseCommandCall]_vars

----------------------------------------------------------------------------
(* ArduinoSerial.ask called several times on one port.  The port keeps what *)
(* the peer wrote until a read takes it: neither ask nor read_line empties  *)
(* the input buffer before the message is written.  Each line in the buffer *)
(* carries the number of the request the peer wrote it for.                 *)

\* how many ask calls are made on the port
MaxRequests == 3

LinkOpcodes ==
    {ARDUINO_OPEN_SHUTTERS, ARDUINO_CLOSE_SHUTTERS, ARDUINO_GET_ENV}

\* data_num_expected as CentralUnit calls ask (lines 379, 497 and 516)
ExpectedFor(opcode) == IF opcode = ARDUINO_GET_ENV THEN 2 ELSE 0

\* what the peer writes for a request: two numbers for the query, an empty
\* line when it is done with an actuation
PeerReply(opcode) ==
    IF opcode = ARDUINO_GET_ENV THEN <<"20", SEP, "20">> ELSE <<>>

\* serial.read_until(b"\r\n") on the buffer (line 106): the first line with
\* its terminator, which leaves the buffer, or nothing at the timeout
ReadUntil(buf) ==
    IF buf = <<>>
    THEN [data |-> <<>>, rest |-> <<>>, request |-> 0]
    ELSE [data |-> Append(buf[1].line, CRLF), rest |-> Tail(buf),
          request |-> buf[1].request]

InitLink ==
    /\ Fresh
    /\ Quiet
    /\ handshake = Connected
    /\ pc = "link"

\* one ask call: the message is written, the peer replies within the timeout
\* or not, and read_line takes the first line of the buffer
LinkAsk ==
    /\ pc = "link"
    /\ requests < MaxRequests
    /\ \E opcode \in LinkOpcodes, inTime \in BOOLEAN :
          LET n == requests + 1
              arrived == IF inTime
                         THEN Append(inbuf, [request |-> n,
                                             line |-> PeerReply(opcode)])
                         ELSE inbuf
              read == ReadUntil(arrived)
              rx == [fault |-> "none", data |-> read.data]
          IN  /\ requests' = n
              /\ sent' = <<opcode>>
              /\ ask_rx' = rx
              /\ ask_expected' = ExpectedFor(opcode)
              /\ ask_result' = Ask(rx, ExpectedFor(opcode))
              /\ error' = Ask(rx, ExpectedFor(opcode)).exc
              /\ inbuf' = read.rest
              /\ consumed' = read.request
              /\ unanswered' = IF inTime THEN unanswered
                               ELSE unanswered
                                    \cup {[request |-> n, opcode |-> opcode]}
    /\ UNCHANGED <<config, shutters_state, last_closed, now, hour, daylight,
                   pc, day_moment, target, temp, lum>>
    /\ UNCHANGED <<loopVars, handshake, cmdVars, exiting, last_actuation>>

\* the peer replies to a request whose ask call is over
LateReply ==
    /\ pc = "link"
    /\ \E u \in unanswered :
          /\ inbuf' = Append(inbuf, [request |-> u.request,
                                     line |-> PeerReply(u.opcode)])
          /\ unanswered' = unanswered \ {u}
    /\ UNCHANGED <<config, shutters_state, last_closed, now, hour, daylight,
                   pc, sent, error, day_moment, target, temp, lum, requests,
                   consumed>>
    /\ UNCHANGED <<loopVars, askVars, handshake, cmdVars, exiting,
                   last_actuation>>

SpecLink == InitLink /\ [][LinkAsk \/ LateReply]_vars

----------------------------------------------------------------------------
(* Claims about the decision engine *)

\* the classification as the specification words it
ClaimedMoment(cfg, state, h, l) ==
    IF h < cfg.sunrise_hour \/ h > cfg.sunset_hour THEN PLAIN_NIGHT
    ELSE IF h = cfg.sunrise_hour
         THEN IF l <= cfg.low_light_threshold /\ state = SHUTTERS_CLOSED
              THEN PLAIN_NIGHT ELSE PLAIN_DAY
    ELSE IF h = cfg.sunset_hour
         THEN IF l > cfg.low_light_threshold /\ state = SHUTTERS_OPENED
              THEN PLAIN_DAY ELSE PLAIN_NIGHT
    ELSE PLAIN_DAY

\* C1: an automatic decision taken less than 3600 seconds after the last
\* confirmed close takes the closing branch and writes no open opcode,
\* whatever the configuration, hour, temperature, luminosity and tracked state
C1_Hysteresis ==
    [][(/\ pc = "auto"
        /\ pc' = "decided"
        /\ last_closed # NoAttr
        /\ now' - last_closed < HYSTERESIS)
       => /\ target' = SHUTTERS_CLOSED
          /\ \A i \in DOMAIN sent' : sent'[i] # ARDUINO_OPEN_SHUTTERS]_vars

\* the shutters were re-opened by hand within the hour, it is plain day with
\* no environment override, and the decision closes them again
C1_Witness ==
    /\ pc = "decided"
    /\ day_moment = PLAIN_DAY
    /\ ~EnvOverride(config, hour, daylight, temp, lum)
    /\ target = SHUTTERS_CLOSED
    /\ sent = <<ARDUINO_CLOSE_SHUTTERS>>
    /\ error = ""

\* C4: the automatic target is Closed exactly when the moment is Night, or it
\* is Day with an environment override, or the shutters were closed within
\* the last 3600 seconds; in every other case it is Open
C4_TargetDecision ==
    [][(pc = "auto" /\ pc' = "decided")
       => LET moment == ClaimedMoment(config, shutters_state, hour', lum')
              night == moment = PLAIN_NIGHT
              override ==
                  /\ moment = PLAIN_DAY
                  /\ config.adapt_with_env_in_plain_day
                  /\ \/ /\ temp' < config.low_temp_threshold
                        /\ lum' < config.low_light_threshold
                     \/ /\ temp' > config.high_temp_threshold
                        /\ Abs(hour' - (SOLAR_NOON + daylight)) <= NOON_SPAN
              recent == /\ last_closed # NoAttr
                        /\ now' - last_closed < HYSTERESIS
          IN  target' = IF night \/ override \/ recent
                        THEN SHUTTERS_CLOSED
                        ELSE SHUTTERS_OPENED]_vars

\* C5: an hour strictly between sunrise and sunset is Day, an hour before
\* sunrise or after sunset is Night, whatever the luminosity and the state
C5_NonBoundaryHours ==
    pc = "classified" =>
        /\ (config.sunrise_hour < hour /\ hour < config.sunset_hour)
               => day_moment = PLAIN_DAY
        /\ (hour < config.sunrise_hour \/ hour > config.sunset_hour)
               => day_moment = PLAIN_NIGHT

\* a dark plain-day hour with the shutters closed is classified Day
C5_Witness ==
    /\ pc = "classified"
    /\ config.sunrise_hour < hour /\ hour < config.sunset_hour
    /\ lum <= config.low_light_threshold
    /\ shutters_state = SHUTTERS_CLOSED
    /\ day_moment = PLAIN_DAY

\* C6: at the sunrise hour the moment is Night iff the luminosity is at most
\* the low-luminosity threshold and the shutters are Closed, Day otherwise
C6_SunriseHour ==
    (pc = "classified" /\ hour = config.sunrise_hour) =>
        /\ day_moment \in {PLAIN_DAY, PLAIN_NIGHT}
        /\ day_moment = PLAIN_NIGHT
              <=> /\ lum <= config.low_light_threshold
                  /\ shutters_state = SHUTTERS_CLOSED

\* a dark sunrise with the shutters already open is Day
C6_Witness ==
    /\ pc = "classified"
    /\ hour = config.sunrise_hour
    /\ lum <= config.low_light_threshold
    /\ shutters_state = SHUTTERS_OPENED
    /\ day_moment = PLAIN_DAY

\* C7: at the sunset hour the moment is Day iff the luminosity is above the
\* low-luminosity threshold and the shutters are Open, Night otherwise
C7_SunsetHour ==
    (pc = "classified" /\ hour = config.sunset_hour) =>
        /\ day_moment \in {PLAIN_DAY, PLAIN_NIGHT}
        /\ day_moment = PLAIN_DAY
              <=> /\ lum > config.low_light_threshold
                  /\ shutters_state = SHUTTERS_OPENED

\* a sunset exactly at the threshold with the shutters open is Night
C7_Witness ==
    /\ pc = "classified"
    /\ hour = config.sunset_hour
    /\ lum = config.low_light_threshold
    /\ shutters_state = SHUTTERS_OPENED
    /\ day_moment = PLAIN_NIGHT

----------------------------------------------------------------------------
(* Claims about actuation in the loop *)

IsActuation(opcode) ==
    opcode \in {ARDUINO_OPEN_SHUTTERS, ARDUINO_CLOSE_SHUTTERS}

OpcodeFor(state) ==
    IF state = SHUTTERS_CLOSED THEN ARDUINO_CLOSE_SHUTTERS
    ELSE ARDUINO_OPEN_SHUTTERS

\* C2: the tracked state and the close timestamp change only in a step that
\* wrote the matching actuation opcode and ended without an exception; a step
\* that ends with an exception leaves both as they were
C2_NoOptimisticUpdate ==
    [][/\ (shutters_state' # shutters_state \/ last_closed' # last_closed)
              => /\ error' = ""
                 /\ sent' # <<>>
                 /\ sent'[Len(sent')] = OpcodeFor(shutters_state')
       /\ (pc = "update" /\ error' # "")
              => /\ shutters_state' = shutters_state
                 /\ last_closed' = last_closed]_vars

\* the peer answered the close opcode with an error line: the unit has left
\* the loop and still tracks the shutters as open, never closed
C2_Witness ==
    /\ pc = "exit(1)"
    /\ error = "ConnectionError"
    /\ sent # <<>>
    /\ sent[Len(sent)] = ARDUINO_CLOSE_SHUTTERS
    /\ shutters_state = SHUTTERS_OPENED
    /\ last_closed = NoAttr

\* C3: in every mode, a step whose target is the tracked state writes no
\* actuation opcode and leaves the tracked state and the close timestamp
C3_Idempotence ==
    [][(pc = "update" /\ target' # NONE /\ target' = shutters_state)
       => /\ \A i \in DOMAIN sent' : ~IsActuation(sent'[i])
          /\ shutters_state' = shutters_state
          /\ last_closed' = last_closed]_vars

\* an automatic recheck decided for closed shutters that are closed already:
\* the environment query is all that was written
C3_Witness ==
    /\ pc = "commands"
    /\ drained = 0
    /\ config.user_mode = USER_MODE_AUTO
    /\ target = SHUTTERS_CLOSED
    /\ shutters_state = SHUTTERS_CLOSED
    /\ sent = <<ARDUINO_GET_ENV>>
    /\ error = ""

----------------------------------------------------------------------------
(* Claims about ask *)

CompleteLine(data) == Len(data) >= 1 /\ data[Len(data)] = CRLF

\* a line of the shape ERROR;<message>
ErrorShape(line) ==
    Len(line) >= 2 /\ line[1] = "ERROR" /\ line[2] = SEP

\* the fields of a line as the claim counts them: none in an empty line
ClaimedFields(line) == IF line = <<>> THEN <<>> ELSE Split(line)

\* C8: a received line that is no error line is returned as its fields when
\* it has exactly data_num_expected fields (an empty line has none), and
\* raises ValueError otherwise
C8_FieldsOrProtocolError ==
    (/\ pc = "asked"
     /\ ask_rx.fault = "none"
     /\ CompleteLine(ask_rx.data)
     /\ ~ErrorShape(ReadLine(ask_rx.data).line))
    => LET fields == ClaimedFields(ReadLine(ask_rx.data).line)
       IN  IF Len(fields) = ask_expected
           THEN /\ ask_result.kind = "return"
                /\ ask_result.info = fields
           ELSE /\ ask_result.kind = "raise"
                /\ ask_result.exc = "ValueError"

\* C9 as stated: a received line of the shape ERROR;<message> raises
\* ConnectionError carrying <message>, all that follows "ERROR;", whatever
\* data_num_expected is
C9_PeerErrorWholeMessage ==
    (/\ pc = "asked"
     /\ ask_rx.fault = "none"
     /\ CompleteLine(ask_rx.data)
     /\ ErrorShape(ReadLine(ask_rx.data).line))
    => LET line == ReadLine(ask_rx.data).line
       IN  /\ ask_result.kind = "raise"
           /\ ask_result.exc = "ConnectionError"
           /\ ask_result.msg = SubSeq(line, 3, Len(line))

\* the second field of an error line: what follows "ERROR;" up to the next
\* separator or the end of the line
MessageField(line) ==
    LET rest == SubSeq(line, 3, Len(line))
        stops == {k \in 1..Len(rest) : rest[k] = SEP}
    IN  IF stops = {} THEN rest
        ELSE SubSeq(rest, 1, (CHOOSE k \in stops : \A j \in stops : k <= j) - 1)

\* C9, amended: a received line of the shape ERROR;<message> raises
\* ConnectionError carrying the message up to its first ';', whatever
\* data_num_expected is, and is never returned
C9_PeerError ==
    (/\ pc = "asked"
     /\ ask_rx.fault = "none"
     /\ CompleteLine(ask_rx.data)
     /\ ErrorShape(ReadLine(ask_rx.data).line))
    => /\ ask_result.kind = "raise"
       /\ ask_result.exc = "ConnectionError"
       /\ ask_result.msg = MessageField(ReadLine(ask_rx.data).line)

\* an error line of exactly the two fields that were expected raised
C9_Witness ==
    /\ pc = "asked"
    /\ ask_rx = [fault |-> "none", data |-> <<"ERROR", SEP, "x", CRLF>>]
    /\ ask_expected = 2
    /\ ask_result.kind = "raise"
    /\ ask_result.exc = "ConnectionError"
    /\ ask_result.msg = <<"x">>

\* C10: when no complete line arrives within the timeout, ask raises
\* TimeoutError if data_num_expected > 0 and returns None if it is 0
C10_Timeout ==
    (/\ pc = "asked"
     /\ ask_rx.fault = "none"
     /\ ~CompleteLine(ask_rx.data))
    => IF ask_expected > 0
       THEN ask_result.kind = "raise" /\ ask_result.exc = "TimeoutError"
       ELSE ask_result.kind = "return" /\ ask_result.none

\* part of a line arrived without its terminator, nothing was expected, and
\* ask returned None
C10_Witness ==
    /\ pc = "asked"
    /\ ask_rx.fault = "none"
    /\ ask_rx.data = <<"20", SEP, "500">>
    /\ ask_expected = 0
    /\ ask_result.kind = "return"
    /\ ask_result.none

----------------------------------------------------------------------------
(* Claims about the start-up *)

\* the line a wait of the handshake is for: CONNECT at the first event,
\* READY at the third
AwaitedLine(i) ==
    IF i = 1 THEN <<"CONNECT", CRLF>> ELSE <<"READY", CRLF>>

\* the i-th event of the handshake is a wait that got something else than
\* the line it was for: another token, no terminator, or nothing in time
Deviates(i) ==
    /\ handshake[i].op = "read"
    /\ handshake[i].fault = "none"
    /\ handshake[i].data # AwaitedLine(i)

\* C11: the unit gets past the handshake only with the events: CONNECT line
\* read, the one character "1" written without line ending, READY line read;
\* nothing is written before the CONNECT line was read; a wait that gets
\* anything else ends the handshake there with ConnectionError
C11_HandshakeOrder ==
    /\ pc \in {"init_command", "loop", "update", "commands", "exit(0)"}
          => handshake = Connected
    /\ \A i \in DOMAIN handshake :
          handshake[i].op = "write"
          => /\ i = 2
             /\ handshake[1] = HandshakeRead("none", <<"CONNECT", CRLF>>)
             /\ handshake[i].data = <<"1">>
    /\ \A i \in DOMAIN handshake :
          Deviates(i)
          => /\ i = Len(handshake)
             /\ pc = "exit(1)"
             /\ error = "ConnectionError"

\* the handshake went through and the initialisation command is next
C11_Witness ==
    /\ pc = "init_command"
    /\ handshake = Connected
    /\ error = ""

HandshakeFailure == \E i \in DOMAIN handshake : Deviates(i)

\* C12: once a wait of the handshake failed, the process has exited with
\* code 1, nothing else happens, no opcode was written and the attributes
\* are those of _init_attributes, the initialisation command not applied
C12_HandshakeFailureFatal ==
    /\ [](HandshakeFailure
          => /\ pc = "exit(1)"
             /\ sent = <<>>
             /\ \A i \in DOMAIN handshake :
                   handshake[i].op = "write" => handshake[i].data = <<"1">>
             /\ config = DefaultConfig
             /\ loop = TRUE
             /\ last_check = StartTime - DEFAULT_TIME_CHECK
             /\ shutters_state = SHUTTERS_OPENED)
    /\ [][~HandshakeFailure]_vars

\* CONNECT came and was acknowledged, READY did not come in time
C12_Witness ==
    /\ pc = "exit(1)"
    /\ Len(handshake) = 3
    /\ handshake[3] = HandshakeRead("none", <<>>)
    /\ error = "ConnectionError"

----------------------------------------------------------------------------
(* Claims about the iterations of the loop *)

\* the step wrote the environment query first, unless the serial port
\* refused the write
Queried ==
    error' # "SerialException" => (sent' # <<>> /\ sent'[1] = ARDUINO_GET_ENV)

ForcedTarget(mode) ==
    IF mode = USER_MODE_OPEN THEN SHUTTERS_OPENED ELSE SHUTTERS_CLOSED

\* C14: an update step in a forced mode writes no environment query and no
\* opcode but the one of the forced target, writes that one whenever the
\* tracked state differs from the target, whatever the clock, the last
\* check and the close timestamp are, and when nothing fails leaves the
\* tracked state at the target
C14_ForceModes ==
    [][(pc = "update"
        /\ config.user_mode \in {USER_MODE_OPEN, USER_MODE_CLOSE})
       => LET forcedTarget == ForcedTarget(config.user_mode)
          IN  /\ target' = forcedTarget
              /\ \A i \in DOMAIN sent' : sent'[i] = OpcodeFor(forcedTarget)
              /\ shutters_state # forcedTarget
                    => \/ sent' = <<OpcodeFor(forcedTarget)>>
                       \/ error' = "SerialException"
              /\ error' = "" => shutters_state' = forcedTarget
              /\ last_check' = last_check]_vars

\* the shutters were closed less than the dwell time ago and a forced open
\* has just opened them
C14_Witness ==
    /\ pc = "commands"
    /\ drained = 0
    /\ config.user_mode = USER_MODE_OPEN
    /\ last_closed # NoAttr
    /\ now - last_closed < HYSTERESIS
    /\ sent = <<ARDUINO_OPEN_SHUTTERS>>
    /\ shutters_state = SHUTTERS_OPENED
    /\ error = ""

\* C15: the update step in automatic mode that follows a drain in which a
\* force_update ran queries the environment, whatever else ran in the drain
C15_ForceRecheck ==
    [][(pc = "update" /\ forced /\ config.user_mode = USER_MODE_AUTO)
       => Queried]_vars

\* C16: once a shutdown ran, the remaining commands of the drain are run
\* as any command is, no update step follows, nothing more is written to
\* the serial port and the process ends with exit code 0
C16_Shutdown ==
    /\ [](~loop => /\ pc \in {"commands", "loop", "exit(0)"}
                   /\ sent = <<>>)
    /\ [][(~loop /\ pc = "commands")
          => \/ /\ pc' = "exit(0)"
                /\ UNCHANGED <<config, last_check>>
             \/ /\ pc' = "commands"
                /\ LET u == ParseCommand(
                                Unit(config, loop, last_check, ""), last_cmd')
                   IN  config' = u.config /\ last_check' = u.last_check]_vars

----------------------------------------------------------------------------
(* Claims about the commands *)

\* the value an option text stands for: a boolean for the adaptation flag,
\* an integer for the others
GivenValue(option, text) ==
    IF option = "adapt_with_env_in_plain_day"
    THEN IntOf(text) # 0
    ELSE IntOf(text)

\* C17: a set_settings that argparse accepts leaves every setting it names
\* at a value given for it, and leaves every other setting, the tracked
\* state, the close timestamp and the last check as they were
C17_PartialUpdate ==
    [][(/\ pc = "parse"
        /\ last_cmd'.command = "set_settings"
        /\ Parses(last_cmd'))
       => LET options == last_cmd'.options
          IN  /\ \A f \in SettingNames :
                    IF \E k \in DOMAIN options : options[k][1] = f
                    THEN \E k \in DOMAIN options :
                            /\ options[k][1] = f
                            /\ config'[f] = GivenValue(f, options[k][2])
                    ELSE config'[f] = config[f]
              /\ UNCHANGED <<shutters_state, last_closed, last_check,
                             loop>>]_vars

\* two settings were given in one command and a third, set before, kept
\* its value
C17_Witness ==
    /\ pc = "parse"
    /\ last_cmd = Command("set_settings",
                          <<<<"sunrise_hour", "8">>,
                            <<"sunset_hour", "22">>>>, "")
    /\ config.sunrise_hour = 8
    /\ config.sunset_hour = 22
    /\ config.low_temp_threshold = 16

\* C18: a get_setting that argparse accepts logs the value the setting has
\* (the one a set_settings just stored), changes nothing and lets the
\* unit carry on
C18_RoundTrip ==
    [][(/\ pc = "parse"
        /\ last_cmd'.command = "get_setting"
        /\ Parses(last_cmd'))
       => /\ Log("status", last_cmd'.name,
                 SettingText(config, last_cmd'.name)) \in logged'
          /\ error' = ""
          /\ pc' = "parse"
          /\ UNCHANGED <<config, loop, last_check, shutters_state,
                         last_closed>>]_vars

\* C19: a command of the drain that argparse refuses is logged as an error,
\* changes no setting and no other attribute, raises nothing, and the
\* drain goes on
C19_RejectedHarmless ==
    [][(/\ pc = "commands"
        /\ last_cmd'.command # ""
        /\ ~Parses(last_cmd'))
       => /\ logged' = {Log("error", "", "")}
          /\ error' = ""
          /\ pc' = "commands"
          /\ UNCHANGED <<config, loop, last_check, shutters_state,
                         last_closed, forced>>]_vars

\* a set_settings with a valid mode and an invalid recheck period was
\* refused and the mode is not the one it gave
C19_Witness ==
    /\ pc = "commands"
    /\ last_cmd = Command("set_settings",
                          <<<<"user_mode", "2">>, <<"time_check", "-1">>>>,
                          "")
    /\ config.user_mode # USER_MODE_OPEN
    /\ logged = {Log("error", "", "")}
    /\ error = ""

\* C20: every setting stays within the range of its validator
C20_ConfigRanges ==
    /\ config.user_mode \in {USER_MODE_AUTO, USER_MODE_OPEN, USER_MODE_CLOSE}
    /\ config.time_check \in Nat
    /\ config.sunrise_hour \in 0..9
    /\ config.sunset_hour \in 14..22
    /\ config.low_light_threshold \in Nat
    /\ config.low_temp_threshold \in TEMP_MIN..16
    /\ config.high_temp_threshold \in 17..TEMP_MAX
    /\ config.adapt_with_env_in_plain_day \in BOOLEAN

\* three settings were moved to a limit of their range
C20_Witness ==
    /\ pc = "parse"
    /\ config.sunrise_hour = 9
    /\ config.low_temp_threshold = 16
    /\ config.high_temp_threshold = 17

----------------------------------------------------------------------------
(* Claims about failures and the first decisions of the loop *)

\* the update step was a recheck whose environment query raised: nothing
\* but the query was written and no decision was taken
QueryFailed ==
    /\ pc = "update"
    /\ config.user_mode = USER_MODE_AUTO
    /\ sent' = <<ARDUINO_GET_ENV>>
    /\ target' = NONE
    /\ error' \in {"TimeoutError", "ConnectionError", "ValueError"}

\* C21: a recheck whose environment query ends in a timeout, an error line
\* of the peer or a malformed answer leaves the tracked state alone and is
\* followed by the command drain, not by the end of the process
C21_RecoverableQueryErrors ==
    [][QueryFailed
       => /\ pc' = "commands"
          /\ UNCHANGED <<shutters_state, last_closed>>]_vars

\* C24: a recheck with the shutters open and never closed, classified
\* plain day with no environment override, decides to leave them open:
\* nothing but the query is written, nothing is raised and the command
\* drain follows
C24_FirstOpenDecision ==
    [][(/\ pc = "update"
        /\ config.user_mode = USER_MODE_AUTO
        /\ shutters_state = SHUTTERS_OPENED
        /\ last_closed = NoAttr
        /\ mangled_last_closed = 0
        /\ now' > HYSTERESIS
        /\ day_moment' = PLAIN_DAY
        /\ ~EnvOverride(config, hour', daylight, temp', lum'))
       => /\ target' = SHUTTERS_OPENED
          /\ sent' = <<ARDUINO_GET_ENV>>
          /\ error' = ""
          /\ pc' = "commands"]_vars

\* C23: an answer of two numbers to the environment query is accepted,
\* and its two values handed to the decision, exactly when the temperature
\* lies within [-40, 60] and the luminosity is not negative
C23_SanityCheck ==
    (/\ pc = "checked"
     /\ ask_result.kind = "return"
     /\ IsNumber(ask_result.info[1])
     /\ IsNumber(ask_result.info[2]))
    => LET t == Float(ask_result.info[1])
           l == Float(ask_result.info[2])
       IN  /\ error = "" <=> (TEMP_MIN <= t /\ t <= TEMP_MAX /\ l >= 0)
           /\ error = "" => (temp = t /\ lum = l)

\* C25: an update step, in any mode, sets the close timestamp to the
\* current time when it takes the tracked state from open to closed, which
\* it does exactly when it wrote the close opcode and nothing failed; every
\* other update step leaves the timestamp as it was
C25_CloseTimestamp ==
    [][pc = "update"
       => /\ (shutters_state = SHUTTERS_OPENED
              /\ shutters_state' = SHUTTERS_CLOSED)
                 <=> (/\ error' = ""
                      /\ \E i \in DOMAIN sent' :
                            sent'[i] = ARDUINO_CLOSE_SHUTTERS)
          /\ IF shutters_state = SHUTTERS_OPENED
                /\ shutters_state' = SHUTTERS_CLOSED
             THEN last_closed' = now'
             ELSE last_closed' = last_closed]_vars

\* a recheck in automatic mode has just closed the shutters and stamped
\* the time
C25_Witness ==
    /\ pc = "commands"
    /\ drained = 0
    /\ config.user_mode = USER_MODE_AUTO
    /\ sent = <<ARDUINO_GET_ENV, ARDUINO_CLOSE_SHUTTERS>>
    /\ shutters_state = SHUTTERS_CLOSED
    /\ last_closed = now
    /\ error = ""

\* the step was a recheck in automatic mode (within an update step of the
\* loop, or _automatic_shutters called on its own), without adaptation to
\* the environment, that found the shutters open and read the sunrise hour
SunriseRecheck ==
    /\ pc \in {"update", "auto"}
    /\ config.user_mode = USER_MODE_AUTO
    /\ ~config.adapt_with_env_in_plain_day
    /\ shutters_state = SHUTTERS_OPENED
    /\ day_moment' # NONE
    /\ hour' = config.sunrise_hour

CloseWritten == \E i \in DOMAIN sent' : sent'[i] = ARDUINO_CLOSE_SHUTTERS

\* C26 as stated: a recheck at the sunrise hour that finds the shutters
\* open, without adaptation to the environment, never writes the close
\* opcode
C26_NoCloseAtSunrise ==
    [][SunriseRecheck => ~CloseWritten]_vars

\* C26: a recheck at the sunrise hour that finds the shutters open, without
\* adaptation to the environment, classifies the hour as day whatever the
\* luminosity, and writes the close opcode only when the shutters were
\* closed less than HYSTERESIS seconds before
C26_NoCloseAtSunriseAfterDwell ==
    [][SunriseRecheck
       => /\ day_moment' = PLAIN_DAY
          /\ CloseWritten
                => (last_closed # NoAttr /\ last_closed > now' - HYSTERESIS)
          /\ (last_closed # NoAttr /\ last_closed <= now' - HYSTERESIS)
                => (/\ target' = SHUTTERS_OPENED
                    /\ \A i \in DOMAIN sent' : sent'[i] = ARDUINO_GET_ENV
                    /\ shutters_state' = SHUTTERS_OPENED
                    /\ error' = "")]_vars

\* a recheck at a dark sunrise found the shutters open, closed long enough
\* before, and left them open
C26_Witness ==
    /\ pc = "decided"
    /\ config.user_mode = USER_MODE_AUTO
    /\ ~config.adapt_with_env_in_plain_day
    /\ hour = config.sunrise_hour
    /\ lum <= config.low_light_threshold
    /\ shutters_state = SHUTTERS_OPENED
    /\ last_closed # NoAttr
    /\ target = SHUTTERS_OPENED
    /\ sent = <<>>

\* what a fatal exit does, in order, with and without a device link
FatalExit(linked) ==
    <<"log error", "log shutting down", "del _Communicator">>
    \o (IF linked THEN <<"del arduino">> ELSE <<>>)
    \o <<"exit(1)">>

StateAfter(opcode) ==
    IF opcode = ARDUINO_CLOSE_SHUTTERS THEN SHUTTERS_CLOSED
    ELSE SHUTTERS_OPENED

\* every actuation opcode a step writes differs from the one written before
\* it, and the first one is a close
Alternates ==
    \A i \in DOMAIN sent' :
       IsActuation(sent'[i])
          => /\ sent'[i] # last_actuation
             /\ last_actuation = NONE => sent'[i] = ARDUINO_CLOSE_SHUTTERS
             /\ \A j \in DOMAIN sent' : IsActuation(sent'[j]) => j = i

----------------------------------------------------------------------------
(* Claims about the pairing of requests and replies *)

\* C28: the line an ask call reads is the peer's reply to the request of
\* that very call: after every ask that read a line, that line was written
\* for the request made last
C28_Correlation ==
    consumed \in {0, requests}

----------------------------------------------------------------------------
(* Claims about what every configuration keeps *)

\* C29: whatever commands were parsed since the default configuration, the
\* sunrise hour is below the sunset hour and the low temperature threshold
\* below the high one, and the classification of every hour of the day, for
\* either tracked state and any luminosity, is day or night
C29_ThresholdOrdering ==
    /\ config.sunrise_hour < config.sunset_hour
    /\ config.low_temp_threshold < config.high_temp_threshold
    /\ \A h \in 0..23 : \A state \in {SHUTTERS_OPENED, SHUTTERS_CLOSED} :
          \A l \in DayTimeLums :
             GetDayTime(config, state, h, l) \in {PLAIN_DAY, PLAIN_NIGHT}

\* the two hours were moved to the limits that face each other
C29_Witness ==
    /\ pc = "parse"
    /\ config.sunrise_hour = 9
    /\ config.sunset_hour = 14
    /\ last_cmd.command = "set_settings"

====
